---- MODULE Spec2Model ----
(***************************************************************************)
(* A model of rustclox: the scanner (src/src/scanner/mod.rs), the parser   *)
(* (src/src/parser/mod.rs), the tree-walking interpreter                   *)
(* (src/src/interpreter/mod.rs), the diagnostics (src/src/error/mod.rs)    *)
(* and the driver function run (src/src/lib.rs).                           *)
(*                                                                         *)
(* A source text is a sequence of characters; a character is a string.     *)
(* The character "U+00E9" stands for a character whose UTF-8 encoding is   *)
(* two bytes long; every other character of the model is one byte long.    *)
(* A panic of the Rust program (unwrap on None, todo!, a slice or an index *)
(* out of range, an arithmetic overflow) is recorded in the variable       *)
(* panic and ends the call.                                                *)
(***************************************************************************)
EXTENDS Integers, Sequences, FiniteSets, TLC

VARIABLES
    entry,          \* the public function that was called: "run", "parse", "interpret"
    pc,             \* the position of the call
    source,         \* the source text: the argument of run and of Parser::parse
    scanner,        \* the Scanner struct
    pending,        \* run: the scanner errors that are still to be reported
    parser,         \* the Parser struct
    declarations,   \* the declarations parsed so far, then the input of interpret
    diagnostics,    \* the errors reported by report_error so far (stderr)
    ip,             \* interpret: the number of declarations executed
    output,         \* the lines printed by print statements (stdout)
    runtime_error,  \* the RuntimeError that execute returned to interpret, or NoError
    panic,          \* "" or the message of the panic that ended the call
    environment,    \* the Environment struct
    calls           \* the calls of define and get made so far, get with its result

vars == <<entry, pc, source, scanner, pending, parser, declarations,
          diagnostics, ip, output, runtime_error, panic, environment, calls>>

----------------------------------------------------------------------------
(* Bounds of the model *)

\* run: the longest source text
MaxSourceLen == 4

\* Parser::parse: the most tokens before Eof, over each of the three alphabets
MaxExprTokens == 6

MaxStmtTokens == 4

MaxAnyTokens == 3

\* Interpreter::interpret: the most declarations
MaxProgramLen == 3

\* Environment: the most calls of define and get
MaxCalls == 4

\* Scanner::scan_tokens: the longest source text of digits and dots
MaxNumberLen == 5

----------------------------------------------------------------------------
(* Characters and strings *)

NONE == "None"

NEWLINE_CHAR == "\n"

MULTIBYTE_CHAR == "U+00E9"

\* char::len_utf8
len_utf8(c) == IF c = MULTIBYTE_CHAR THEN 2 ELSE 1

RECURSIVE str_len(_)
\* str::len: the length in bytes
str_len(s) == IF s = <<>> THEN 0 ELSE len_utf8(Head(s)) + str_len(Tail(s))

\* str::chars().nth(n)
chars_nth(s, n) == IF n < Len(s) THEN s[n + 1] ELSE NONE

\* the byte offset of the character of index i (0-based), for i in 0..Len(s)
byte_offset(s, i) == str_len(SubSeq(s, 1, i))

\* str::is_char_boundary
is_char_boundary(s, b) == \E i \in 0..Len(s) : byte_offset(s, i) = b

\* &s[a..b]: the slice of the bytes a..b; it panics when a > b, when b is past
\* the end, or when a or b is not a char boundary
str_slice(s, a, b) ==
    IF a <= b /\ is_char_boundary(s, a) /\ is_char_boundary(s, b)
    THEN LET i == CHOOSE i \in 0..Len(s) : byte_offset(s, i) = a
             j == CHOOSE j \in 0..Len(s) : byte_offset(s, j) = b
         IN [ok |-> TRUE, text |-> SubSeq(s, i + 1, j)]
    ELSE [ok |-> FALSE, text |-> <<>>]

is_ascii_digit(c) == c \in {"0", "1", "2", "3", "4", "5", "6", "7", "8", "9"}

is_ascii_alphabetic(c) ==
    c \in {"a", "b", "c", "d", "e", "f", "g", "h", "i", "j", "k", "l", "m",
           "n", "o", "p", "q", "r", "s", "t", "u", "v", "w", "x", "y", "z",
           "A", "B", "C", "D", "E", "F", "G", "H", "I", "J", "K", "L", "M",
           "N", "O", "P", "Q", "R", "S", "T", "U", "V", "W", "X", "Y", "Z"}

is_ascii_alphanumeric(c) == is_ascii_alphabetic(c) \/ is_ascii_digit(c)

----------------------------------------------------------------------------
(* Tokens (src/src/scanner/token.rs) *)

\* A TokenType: the variant, the variant of its payload (the operator, the
\* kind of literal) and the text of its payload (the digits of a number, the
\* content of a string, the name of an identifier).
TokenType(type, sub, text) == [type |-> type, sub |-> sub, text |-> text]

Plain(type) == TokenType(type, "", <<>>)

Operator(op) == TokenType("Operator", op, <<>>)

Literal(sub, text) == TokenType("Literal", sub, text)

Identifier(name) == TokenType("Identifier", "", name)

Eof == Plain("Eof")

\* Token::new
Token(token_type, line, column) ==
    [token_type |-> token_type, line |-> line, start_index_in_source |-> column]

\* no payload, and no operator token, in a node or a diagnostic without one
NoValue == Plain("None")

NoOperator == Token(NoValue, 0, 0)

\* TokenType::is_same_type: the discriminants of the two TokenType values are
\* compared, and the discriminant of TokenType is its variant alone
is_same_type(a, b) == a.type = b.type

\* the KEYWORDS table
KEYWORDS(text) ==
    CASE text = <<"a", "n", "d">> -> Plain("And")
      [] text = <<"c", "l", "a", "s", "s">> -> Plain("Class")
      [] text = <<"e", "l", "s", "e">> -> Plain("Else")
      [] text = <<"f", "a", "l", "s", "e">> -> Literal("False", <<>>)
      [] text = <<"f", "o", "r">> -> Plain("For")
      [] text = <<"f", "u", "n">> -> Plain("Fun")
      [] text = <<"i", "f">> -> Plain("If")
      [] text = <<"n", "i", "l">> -> Literal("Nil", <<>>)
      [] text = <<"o", "r">> -> Plain("Or")
      [] text = <<"p", "r", "i", "n", "t">> -> Plain("Print")
      [] text = <<"r", "e", "t", "u", "r", "n">> -> Plain("Return")
      [] text = <<"s", "u", "p", "e", "r">> -> Plain("Super")
      [] text = <<"t", "h", "i", "s">> -> Plain("This")
      [] text = <<"t", "r", "u", "e">> -> Literal("True", <<>>)
      [] text = <<"v", "a", "r">> -> Plain("Var")
      [] text = <<"w", "h", "i", "l", "e">> -> Plain("While")
      [] OTHER -> Identifier(text)

----------------------------------------------------------------------------
(* The scanner (src/src/scanner/mod.rs).  A scanner value is the Scanner   *)
(* struct with one more field, panic: "" or the panic that ended the call. *)

\* ScannerError::UnknownToken(char, line, current)
UnknownToken(character, line, current) ==
    [character |-> character, line |-> line, current |-> current]

\* Scanner::new
NewScanner(src) ==
    [source |-> src, line |-> 1, start |-> 0, current |-> 0,
     tokens |-> <<>>, errors |-> <<>>, panic |-> ""]

\* Scanner::is_at_end
scanner_is_at_end(s) == s.current >= str_len(s.source)

\* Scanner::peek
scanner_peek(s) == chars_nth(s.source, s.current)

\* Scanner::peek_next
peek_next(s) == chars_nth(s.source, s.current + 1)

\* Scanner::advance: the character is the one scanner_peek gives beforehand
scanner_advance(s) ==
    IF s.panic # "" THEN s
    ELSE IF chars_nth(s.source, s.current) = NONE
    THEN [s EXCEPT !.panic = "advance: unwrap on None"]
    ELSE [s EXCEPT !.current = @ + 1]

\* Scanner::add_token
add_token(s, token_type) ==
    IF s.panic # "" THEN s
    ELSE [s EXCEPT !.tokens = Append(@, Token(token_type, s.line, s.start))]

\* Scanner::match_current: the scanner afterwards; it matched iff current moved
match_current(s, expected) ==
    IF scanner_peek(s) # NONE /\ scanner_peek(s) = expected
    THEN scanner_advance(s)
    ELSE s

\* scan_token, the arms of '!', '=', '<', '>' as they would be with the '='
\* looked at and left in place
one_or_two_leaves_equal(s, two, one) ==
    add_token(s, IF scanner_peek(s) = "=" THEN two ELSE one)

\* scan_token, the arms of '!', '=', '<', '>'
one_or_two(s, two, one) ==
    LET m == match_current(s, "=")
    IN add_token(m, IF m.current # s.current THEN two ELSE one)

RECURSIVE skip_comment(_)
\* scan_token, the loop that discards a comment
skip_comment(s) ==
    IF s.panic = "" /\ scanner_peek(s) # NEWLINE_CHAR /\ ~scanner_is_at_end(s)
    THEN skip_comment(scanner_advance(s))
    ELSE s

RECURSIVE string_loop(_)
\* scan_string, its loop
string_loop(s) ==
    IF s.panic = "" /\ scanner_peek(s) # "\"" /\ ~scanner_is_at_end(s)
    THEN string_loop(scanner_advance(
             IF scanner_peek(s) = NEWLINE_CHAR
             THEN [s EXCEPT !.line = @ + 1] ELSE s))
    ELSE s

\* Scanner::scan_string
scan_string(s) ==
    LET l == string_loop(s)
    IN IF l.panic # "" THEN l
       ELSE IF scanner_is_at_end(l)
       THEN [l EXCEPT !.panic = "scan_string: not yet implemented: Handle error"]
       ELSE LET c == scanner_advance(l)
                string_content == str_slice(c.source, c.start + 1, c.current - 1)
            IN IF c.panic # "" THEN c
               ELSE IF ~string_content.ok
               THEN [c EXCEPT !.panic = "scan_string: slice"]
               ELSE add_token(c, Literal("Str", string_content.text))

RECURSIVE digits_loop(_)
\* scan_number, each of its two loops
digits_loop(s) ==
    IF s.panic = "" /\ scanner_peek(s) # NONE /\ is_ascii_digit(scanner_peek(s))
    THEN digits_loop(scanner_advance(s))
    ELSE s

\* Scanner::scan_number.  parse::<f32> accepts a text of digits with at most
\* one '.', at any place, and at least one digit; the slice is such a text
\* when it is the characters consumed, but it need not be (see str_slice)
scan_number(s) ==
    LET i == digits_loop(s)
        f == IF i.panic = "" /\ scanner_peek(i) = "." /\ peek_next(i) # NONE
                /\ is_ascii_digit(peek_next(i))
             THEN digits_loop(scanner_advance(i))
             ELSE i
        number_value == str_slice(f.source, f.start, f.current)
    IN IF f.panic # "" THEN f
       ELSE IF ~number_value.ok
       THEN [f EXCEPT !.panic = "scan_number: slice"]
       ELSE IF \/ \E k \in 1..Len(number_value.text) :
                      ~is_ascii_digit(number_value.text[k]) /\ number_value.text[k] # "."
               \/ \A k \in 1..Len(number_value.text) : number_value.text[k] = "."
               \/ Cardinality({k \in 1..Len(number_value.text) :
                                   number_value.text[k] = "."}) > 1
       THEN [f EXCEPT !.panic = "scan_number: unwrap on Err"]
       ELSE add_token(f, Literal("Number", number_value.text))

RECURSIVE identifier_loop(_)
\* scan_identifier, its loop
identifier_loop(s) ==
    IF s.panic = "" /\ scanner_peek(s) # NONE
       /\ (scanner_peek(s) = "_" \/ is_ascii_alphanumeric(scanner_peek(s)))
    THEN identifier_loop(scanner_advance(s))
    ELSE s

\* Scanner::scan_identifier
scan_identifier(s) ==
    LET l == identifier_loop(s)
        text == str_slice(l.source, l.start, l.current)
    IN IF l.panic # "" THEN l
       ELSE IF ~text.ok
       THEN [l EXCEPT !.panic = "scan_identifier: slice"]
       ELSE add_token(l, KEYWORDS(text.text))

\* Scanner::scan_token
scan_token(s) ==
    LET character == chars_nth(s.source, s.current)
        a == scanner_advance(s)
    IN IF a.panic # "" THEN a
       ELSE CASE character = "(" -> add_token(a, Plain("LeftParenthesis"))
              [] character = ")" -> add_token(a, Plain("RightParenthesis"))
              [] character = "{" -> add_token(a, Plain("LeftBrace"))
              [] character = "}" -> add_token(a, Plain("RightBrace"))
              [] character = "," -> add_token(a, Plain("Comma"))
              [] character = "." -> add_token(a, Plain("Dot"))
              [] character = "-" -> add_token(a, Operator("Minus"))
              [] character = "+" -> add_token(a, Operator("Plus"))
              [] character = ";" -> add_token(a, Plain("Semicolon"))
              [] character = "*" -> add_token(a, Operator("Star"))
              [] character = "!" -> one_or_two(a, Operator("BangEqual"), Plain("Bang"))
              [] character = "=" -> one_or_two(a, Operator("EqualEqual"), Plain("Equal"))
              [] character = "<" -> one_or_two(a, Operator("LessEqual"), Operator("Less"))
              [] character = ">" ->
                     one_or_two(a, Operator("GreaterEqual"), Operator("Greater"))
              [] character = "/" ->
                     LET m == match_current(a, "/")
                     IN IF m.current # a.current
                        THEN skip_comment(m)
                        ELSE add_token(m, Operator("Slash"))
              [] character = "\"" -> scan_string(a)
              [] is_ascii_digit(character) -> scan_number(a)
              [] is_ascii_alphabetic(character) \/ character = "_" -> scan_identifier(a)
              [] character \in {" ", "\r", "\t"} -> a
              [] character = NEWLINE_CHAR -> [a EXCEPT !.line = @ + 1]
              [] OTHER ->
                     [a EXCEPT !.errors =
                          Append(@, UnknownToken(character, a.line, a.current))]

----------------------------------------------------------------------------
(* Diagnostics (src/src/error/mod.rs) *)

\* the position of the first "\n" of s (1-based), 0 when there is none
first_newline(s) ==
    IF \E k \in 1..Len(s) : s[k] = NEWLINE_CHAR
    THEN CHOOSE k \in 1..Len(s) :
             s[k] = NEWLINE_CHAR /\ \A j \in 1..(k - 1) : s[j] # NEWLINE_CHAR
    ELSE 0

\* a line that ended in "\n", without the "\r" that came before the "\n"
strip_cr(l) == IF l # <<>> /\ l[Len(l)] = "\r" THEN SubSeq(l, 1, Len(l) - 1) ELSE l

RECURSIVE str_lines(_)
\* str::lines, collected: the text is cut after each "\n"; a line loses its
\* "\n" and then its "\r"; there is no empty line after a final "\n"
str_lines(s) ==
    IF s = <<>> THEN <<>>
    ELSE LET k == first_newline(s)
         IN IF k = 0 THEN <<s>>
            ELSE <<strip_cr(SubSeq(s, 1, k - 1))>> \o str_lines(SubSeq(s, k + 1, Len(s)))

RECURSIVE sum_line_lengths(_, _)
\* lines[..n].iter().map(|l| l.len() + 1).sum()
sum_line_lengths(lines, n) ==
    IF n = 0 THEN 0 ELSE sum_line_lengths(lines, n - 1) + str_len(lines[n]) + 1

\* find_location_in_source: the line content and the column.  The two
\* subtractions are of usize: overflow records that one of them went below
\* zero (a panic in a debug build; in a release build the column wraps to a
\* number near 2^64, and report_error then panics in " ".repeat(col)).  col
\* is the difference as an integer.
find_location_in_source(src, line, current_index) ==
    LET lines == str_lines(src)
    IN IF line = 0 \/ line > Len(lines)
       THEN [line_content |-> <<>>, col |-> 0, overflow |-> FALSE]
       ELSE LET col == current_index - sum_line_lengths(lines, line - 1)
            IN [line_content |-> lines[line],
                col |-> col - 1,
                overflow |-> col < 0 \/ col - 1 < 0]

\* CloxError::report_error: the diagnostic written to stderr, or the panic.
\* kind is "ScannerError" or "ParserError"; line and current are those the
\* error carries (for a ParserError those of the token found).
report_error(kind, line, current, src) ==
    LET loc == find_location_in_source(src, line, current)
    IN [panic |-> IF loc.overflow THEN "report_error: attempt to subtract with overflow"
                  ELSE "",
        diagnostic |-> [kind |-> kind, character |-> "", expected |-> <<>>,
                        found |-> NoOperator, line |-> line, current |-> current,
                        line_content |-> loc.line_content, col |-> loc.col]]

----------------------------------------------------------------------------
(* The syntax tree (src/src/ast/mod.rs).  Every node has the same fields:  *)
(* value (the Literal of a literal, the Identifier of an identifier),      *)
(* operator (the operator token of a unary or a binary node) and kids.     *)

\* Expression::Literal
LiteralExpr(literal) ==
    [node |-> "Literal", value |-> literal, operator |-> NoOperator, kids |-> <<>>]

\* Expression::Grouping
GroupingExpr(inner) ==
    [node |-> "Grouping", value |-> NoValue, operator |-> NoOperator, kids |-> <<inner>>]

\* Expression::Unary
UnaryExpr(operator, right) ==
    [node |-> "Unary", value |-> NoValue, operator |-> operator, kids |-> <<right>>]

\* Expression::Binary
BinaryExpr(left, operator, right) ==
    [node |-> "Binary", value |-> NoValue, operator |-> operator, kids |-> <<left, right>>]

\* Expression::Identifier
IdentifierExpr(identifier) ==
    [node |-> "Identifier", value |-> identifier, operator |-> NoOperator, kids |-> <<>>]

\* Decl::Var
VarDecl(name, initializer) == [decl |-> "Var", name |-> name, expr |-> initializer]

\* Decl::Statement(Stmt::Expression)
ExpressionStmt(expr) == [decl |-> "Expression", name |-> NoOperator, expr |-> expr]

\* Decl::Statement(Stmt::Print)
PrintStmt(expr) == [decl |-> "Print", name |-> NoOperator, expr |-> expr]

----------------------------------------------------------------------------
(* The parser (src/src/parser/mod.rs).  A parser value is the Parser       *)
(* struct with one more field, panic.  A parse function gives a result:    *)
(* the parser afterwards, ok, and the value (ok) or the ParserError (not   *)
(* ok); after a panic the result is not ok and the parser holds the panic. *)

\* Parser::new
NewParser(tokens) == [tokens |-> tokens, current |-> 0, panic |-> ""]

\* ParserError::UnexpectedToken
UnexpectedToken(expected, found) == [expected |-> expected, found |-> found]

Ok(p, v) == [p |-> p, ok |-> TRUE, v |-> v]

Err(p, e) == [p |-> p, ok |-> FALSE, v |-> e]

Panicked(p, message) ==
    [p |-> [p EXCEPT !.panic = message], ok |-> FALSE, v |-> <<>>]

\* Parser::peek: whether the index is in range (if not, peek panics), and
\* the token
peek_in_range(p) == p.current < Len(p.tokens)

parser_peek(p) == p.tokens[p.current + 1]

\* Parser::is_at_end: "yes", "no", or "panic" when peek panics
parser_is_at_end(p) ==
    IF ~peek_in_range(p) THEN "panic"
    ELSE IF parser_peek(p).token_type = Eof THEN "yes" ELSE "no"

\* Parser::previous: the index current - 1 is in range
previous_in_range(p) == p.current >= 1 /\ p.current - 1 < Len(p.tokens)

previous(p) == p.tokens[p.current]

\* Parser::advance as it would be without the test of is_at_end
parser_advance_past_end(p) ==
    LET q == [p EXCEPT !.current = @ + 1]
    IN IF p.panic # "" THEN Panicked(p, p.panic)
       ELSE IF ~previous_in_range(q) THEN Panicked(q, "previous: index out of bounds")
       ELSE Ok(q, previous(q))

\* Parser::advance: the result holds the token returned
parser_advance(p) ==
    LET e == parser_is_at_end(p)
        q == IF e = "no" THEN [p EXCEPT !.current = @ + 1] ELSE p
    IN IF e = "panic" THEN Panicked(p, "peek: index out of bounds")
       ELSE IF ~previous_in_range(q) THEN Panicked(q, "previous: index out of bounds")
       ELSE Ok(q, previous(q))

\* Parser::check: "yes", "no", or "panic"
check(p, token_type) ==
    LET e == parser_is_at_end(p)
    IN IF e = "panic" THEN "panic"
       ELSE IF e = "yes" THEN "no"
       ELSE IF is_same_type(parser_peek(p).token_type, token_type) THEN "yes" ELSE "no"

\* TokenSubType::from_token_type of Identifier, as is_some().  The parser and
\* the syntax tree use the subtype Identifier, whose definition is not in
\* token.rs: it is taken to hold the name of an Identifier token, as Literal
\* holds the value of a Literal token.
Identifier_from_token_type(token_type) == token_type.type = "Identifier"

\* TokenSubType::from_token_type of the subtype T, as is_some(): "TokenType",
\* "Literal", "BinaryOperator" (named Operator in token.rs), "UnaryOperator"
\* and "Identifier"
from_token_type(T, token_type) ==
    CASE T = "TokenType" -> TRUE
      [] T = "Literal" -> token_type.type = "Literal"
      [] T = "BinaryOperator" -> token_type.type = "Operator"
      [] T = "UnaryOperator" ->
             \/ (token_type.type = "Operator" /\ token_type.sub = "Minus")
             \/ token_type.type = "Bang"
      [] T = "Identifier" -> Identifier_from_token_type(token_type)

RECURSIVE match_token(_, _, _)
\* Parser::match_token with the types (already through T::to_token_type) of
\* the subtype T: the parser afterwards, and the token when the result is
\* Some (ok) or <<>> when it is None (not ok, no panic in p)
match_token(p, types, T) ==
    IF types = <<>> THEN [p |-> p, ok |-> FALSE, v |-> <<>>]
    ELSE LET c == check(p, Head(types))
         IN IF c = "panic" THEN Panicked(p, "peek: index out of bounds")
            ELSE IF c = "yes"
            THEN LET a == parser_advance(p)
                 IN IF ~a.ok THEN a
                    ELSE IF from_token_type(T, a.v.token_type) THEN a
                    ELSE [p |-> a.p, ok |-> FALSE, v |-> <<>>]
            ELSE match_token(p, Tail(types), T)

\* Parser::consume
consume(p, expected) ==
    LET c == check(p, expected)
    IN IF c = "panic" THEN Panicked(p, "peek: index out of bounds")
       ELSE IF c = "yes" THEN parser_advance(p)
       ELSE Err(p, UnexpectedToken(<<expected>>, parser_peek(p)))

\* The ? of Rust: after a result that is not ok the function returns it,
\* after one that is ok it goes on with the parser and the value
Try(r, Then(_, _)) == IF ~r.ok THEN r ELSE Then(r.p, r.v)

\* if let Some(token) = match_token(..) { Some } else { None }: a panic in
\* match_token ends the function
IfLetSome(m, Some(_, _), None(_)) ==
    IF m.ok THEN Some(m.p, m.v) ELSE IF m.p.panic # "" THEN m ELSE None(m.p)

RECURSIVE parse_expression(_), parse_equality(_), equality_loop(_, _),
          parse_comparison(_), comparison_loop(_, _), parse_term(_),
          term_loop(_, _), parse_factor(_), factor_loop(_, _),
          parse_unary(_), parse_primary(_)

\* Parser::parse_primary, the error after no token matched
primary_error(p) ==
    IF ~peek_in_range(p) THEN Panicked(p, "peek: index out of bounds")
    ELSE Err(p, UnexpectedToken(<<Literal("False", <<>>), Literal("True", <<>>),
                                  Literal("Nil", <<>>), Literal("Number", <<"0">>),
                                  Literal("Str", <<>>), Plain("LeftParenthesis")>>,
                                parser_peek(p)))

\* Parser::parse_primary
parse_primary(p) ==
    IfLetSome(
        match_token(p, <<Literal("False", <<>>), Literal("True", <<>>),
                         Literal("Nil", <<>>)>>, "Literal"),
        LAMBDA q, literal_token : Ok(q, LiteralExpr(literal_token.token_type)),
        LAMBDA p1 : IfLetSome(
            match_token(p1, <<Literal("Number", <<"0">>)>>, "Literal"),
            LAMBDA q, number_token : Ok(q, LiteralExpr(number_token.token_type)),
            LAMBDA p2 : IfLetSome(
                match_token(p2, <<Literal("Str", <<>>)>>, "Literal"),
                LAMBDA q, string_token : Ok(q, LiteralExpr(string_token.token_type)),
                LAMBDA p3 : IfLetSome(
                    match_token(p3, <<Identifier(<<>>)>>, "Identifier"),
                    LAMBDA q, identifier : Ok(q, IdentifierExpr(identifier.token_type)),
                    LAMBDA p4 : IfLetSome(
                        match_token(p4, <<Plain("LeftParenthesis")>>, "TokenType"),
                        LAMBDA q, paren :
                            Try(parse_expression(q),
                                LAMBDA q1, expr :
                                    Try(consume(q1, Plain("RightParenthesis")),
                                        LAMBDA q2, close : Ok(q2, GroupingExpr(expr)))),
                        primary_error)))))

\* Parser::parse_unary
parse_unary(p) ==
    IfLetSome(
        match_token(p, <<Operator("Minus"), Plain("Bang")>>, "UnaryOperator"),
        LAMBDA q, operator :
            Try(parse_unary(q), LAMBDA q1, right : Ok(q1, UnaryExpr(operator, right))),
        parse_primary)

\* Parser::parse_factor, its loop as it would be with the expression built so
\* far folded in as the right operand
factor_loop_folds_right(p, expr) ==
    IfLetSome(
        match_token(p, <<Operator("Star"), Operator("Slash")>>, "BinaryOperator"),
        LAMBDA q, operator :
            Try(parse_unary(q),
                LAMBDA q1, right : factor_loop(q1, BinaryExpr(right, operator, expr))),
        LAMBDA q : Ok(q, expr))

\* Parser::parse_factor, its loop: expr is the expression built so far
factor_loop(p, expr) ==
    IfLetSome(
        match_token(p, <<Operator("Star"), Operator("Slash")>>, "BinaryOperator"),
        LAMBDA q, operator :
            Try(parse_unary(q),
                LAMBDA q1, right : factor_loop(q1, BinaryExpr(expr, operator, right))),
        LAMBDA q : Ok(q, expr))

\* Parser::parse_factor
parse_factor(p) == Try(parse_unary(p), factor_loop)

\* Parser::parse_term, its loop
term_loop(p, expr) ==
    IfLetSome(
        match_token(p, <<Operator("Minus"), Operator("Plus")>>, "BinaryOperator"),
        LAMBDA q, operator :
            Try(parse_factor(q),
                LAMBDA q1, right : term_loop(q1, BinaryExpr(expr, operator, right))),
        LAMBDA q : Ok(q, expr))

\* Parser::parse_term
parse_term(p) == Try(parse_factor(p), term_loop)

\* Parser::parse_comparison, its loop
comparison_loop(p, expr) ==
    IfLetSome(
        match_token(p, <<Operator("Greater"), Operator("GreaterEqual"),
                         Operator("Less"), Operator("LessEqual")>>, "BinaryOperator"),
        LAMBDA q, operator :
            Try(parse_term(q),
                LAMBDA q1, right : comparison_loop(q1, BinaryExpr(expr, operator, right))),
        LAMBDA q : Ok(q, expr))

\* Parser::parse_comparison
parse_comparison(p) == Try(parse_term(p), comparison_loop)

\* Parser::parse_equality, its loop
equality_loop(p, expr) ==
    IfLetSome(
        match_token(p, <<Operator("BangEqual"), Operator("EqualEqual")>>,
                    "BinaryOperator"),
        LAMBDA q, operator :
            Try(parse_comparison(q),
                LAMBDA q1, right : equality_loop(q1, BinaryExpr(expr, operator, right))),
        LAMBDA q : Ok(q, expr))

\* Parser::parse_equality
parse_equality(p) == Try(parse_comparison(p), equality_loop)

\* Parser::parse_expression
parse_expression(p) == parse_equality(p)

\* Parser::parse_expression_statement
parse_expression_statement(p) ==
    Try(parse_expression(p),
        LAMBDA q, expr :
            Try(consume(q, Plain("Semicolon")),
                LAMBDA q1, semi : Ok(q1, ExpressionStmt(expr))))

\* Parser::parse_print_statement
parse_print_statement(p) ==
    Try(parse_expression(p),
        LAMBDA q, value :
            Try(consume(q, Plain("Semicolon")),
                LAMBDA q1, semi : Ok(q1, PrintStmt(value))))

\* Parser::parse_statement
parse_statement(p) ==
    IfLetSome(match_token(p, <<Plain("Print")>>, "TokenType"),
              LAMBDA q, print : parse_print_statement(q),
              parse_expression_statement)

\* Parser::parse_var_declaration, from the initializer on
var_initializer(p, name_token) ==
    Try(IfLetSome(match_token(p, <<Plain("Equal")>>, "TokenType"),
                  LAMBDA q, equal : parse_expression(q),
                  LAMBDA q : Ok(q, LiteralExpr(Literal("Nil", <<>>)))),
        LAMBDA q, initializer :
            Try(consume(q, Plain("Semicolon")),
                LAMBDA q1, semi : Ok(q1, VarDecl(name_token, initializer))))

\* Parser::parse_var_declaration
parse_var_declaration(p) ==
    Try(consume(p, Identifier(<<>>)),
        LAMBDA q, name_token :
            IF ~from_token_type("Identifier", name_token.token_type)
            THEN Panicked(q, "parse_var_declaration: unwrap on None")
            ELSE var_initializer(q, name_token))

\* Parser::parse_declaration
parse_declaration(p) ==
    IfLetSome(match_token(p, <<Plain("Var")>>, "TokenType"),
              LAMBDA q, var : parse_var_declaration(q),
              parse_statement)

\* the keywords at which synchronize stops as they would be without print
IsStatementStart_without_print(token_type) ==
    token_type.type \in {"Class", "Fun", "Var", "For", "If", "While", "Return"}

\* the keywords at which synchronize stops
IsStatementStart(token_type) ==
    token_type.type \in {"Class", "Fun", "Var", "For", "If", "While", "Print", "Return"}

RECURSIVE synchronize_loop(_)
\* Parser::synchronize, its loop: the parser afterwards
synchronize_loop(p) ==
    CASE p.panic # "" -> p
      [] parser_is_at_end(p) = "panic" -> [p EXCEPT !.panic = "peek: index out of bounds"]
      [] parser_is_at_end(p) = "yes" -> p
      [] OTHER ->
             IF ~previous_in_range(p)
             THEN [p EXCEPT !.panic = "previous: index out of bounds"]
             ELSE IF previous(p).token_type = Plain("Semicolon") THEN p
             ELSE IF IsStatementStart(parser_peek(p).token_type) THEN p
             ELSE synchronize_loop(parser_advance(p).p)

\* Parser::synchronize as it would be without the advance before its loop
synchronize_without_advance(p) == synchronize_loop(p)

\* Parser::synchronize: the parser afterwards
synchronize(p) == synchronize_loop(parser_advance(p).p)

\* Parser::parse, the body of its loop: the parser afterwards, the
\* declaration pushed (decl), or the error and what report_error made of it
parse_iteration_err(r, q, rep) ==
    [p |-> IF r.p.panic # "" THEN r.p ELSE q,
     panic |-> IF r.p.panic # "" THEN r.p.panic
               ELSE IF q.panic # "" THEN q.panic
               ELSE rep.panic,
     decl |-> <<>>,
     diagnostic |-> IF r.p.panic # "" \/ q.panic # "" \/ rep.panic # "" THEN <<>>
                    ELSE <<[rep.diagnostic EXCEPT !.expected = r.v.expected,
                                                  !.found = r.v.found]>>]

parse_iteration_after(r, src) ==
    IF r.ok
    THEN [p |-> r.p, panic |-> "", decl |-> <<r.v>>, diagnostic |-> <<>>]
    ELSE IF r.p.panic # ""
    THEN [p |-> r.p, panic |-> r.p.panic, decl |-> <<>>, diagnostic |-> <<>>]
    ELSE parse_iteration_err(
             r, synchronize(r.p),
             report_error("ParserError", r.v.found.line,
                          r.v.found.start_index_in_source, src))

parse_iteration(p, src) == parse_iteration_after(parse_declaration(p), src)

----------------------------------------------------------------------------
(* Numbers.  An f32 is modelled by a fraction <<n, d>> in lowest terms     *)
(* with d > 0, by <<1, 0>> and <<-1, 0>> for the two infinities and by     *)
(* <<0, 0>> for NaN.  The rounding of f32 and the sign of zero are not     *)
(* modelled: the numbers of the model's programs are small and exact.      *)

Abs(x) == IF x < 0 THEN -x ELSE x

Sign(x) == IF x < 0 THEN -1 ELSE IF x = 0 THEN 0 ELSE 1

RECURSIVE Gcd(_, _)
Gcd(a, b) == IF b = 0 THEN a ELSE Gcd(b, a % b)

Fraction(n, d) ==
    IF d = 0 THEN <<Sign(n), 0>>
    ELSE LET g == Gcd(Abs(n), Abs(d)) IN <<Sign(d) * (n \div g), Abs(d) \div g>>

IsNaN(x) == x = <<0, 0>>

DigitValue(c) ==
    CASE c = "0" -> 0 [] c = "1" -> 1 [] c = "2" -> 2 [] c = "3" -> 3 [] c = "4" -> 4
      [] c = "5" -> 5 [] c = "6" -> 6 [] c = "7" -> 7 [] c = "8" -> 8 [] c = "9" -> 9

RECURSIVE DigitsValue(_)
\* the value of a text of digits, its '.' skipped
DigitsValue(text) ==
    IF text = <<>> THEN 0
    ELSE LET last == text[Len(text)]
             front == SubSeq(text, 1, Len(text) - 1)
         IN IF last = "." THEN DigitsValue(front)
            ELSE 10 * DigitsValue(front) + DigitValue(last)

RECURSIVE Pow10(_)
Pow10(k) == IF k = 0 THEN 1 ELSE 10 * Pow10(k - 1)

\* str::parse::<f32> of the text of a number token
parse_f32(text) ==
    LET dot == IF \E k \in 1..Len(text) : text[k] = "."
               THEN CHOOSE k \in 1..Len(text) : text[k] = "." ELSE 0
    IN Fraction(DigitsValue(text), IF dot = 0 THEN 1 ELSE Pow10(Len(text) - dot))

\* l + r of f32
f32_add(l, r) ==
    IF l[2] = 0 /\ r[2] = 0
    THEN IF l = r THEN l ELSE <<0, 0>>
    ELSE Fraction(l[1] * r[2] + r[1] * l[2], l[2] * r[2])

\* -n of f32
f32_neg(n) == <<-n[1], n[2]>>

\* l - r of f32
f32_sub(l, r) == f32_add(l, f32_neg(r))

\* l * r of f32
f32_mul(l, r) == Fraction(l[1] * r[1], l[2] * r[2])

\* l / r of f32: a division by zero gives an infinity or NaN
f32_div(l, r) ==
    f32_mul(l, IF r = <<0, 1>> THEN <<1, 0>> ELSE Fraction(r[2] * Sign(r[1]), Abs(r[1])))

\* l < r of f32: false when either is NaN
f32_lt(l, r) ==
    /\ ~IsNaN(l) /\ ~IsNaN(r)
    /\ IF l[2] = 0 /\ r[2] = 0 THEN l[1] < r[1] ELSE l[1] * r[2] < r[1] * l[2]

\* l == r of f32: false when either is NaN
f32_eq(l, r) == ~IsNaN(l) /\ ~IsNaN(r) /\ l = r

DigitChar(d) ==
    CASE d = 0 -> "0" [] d = 1 -> "1" [] d = 2 -> "2" [] d = 3 -> "3" [] d = 4 -> "4"
      [] d = 5 -> "5" [] d = 6 -> "6" [] d = 7 -> "7" [] d = 8 -> "8" [] d = 9 -> "9"

RECURSIVE NatToString(_)
NatToString(n) ==
    IF n < 10 THEN <<DigitChar(n)>> ELSE Append(NatToString(n \div 10), DigitChar(n % 10))

RECURSIVE FractionDigits(_, _, _)
\* the decimal digits of r / d (r < d), at most k of them
FractionDigits(r, d, k) ==
    IF r = 0 \/ k = 0 THEN <<>>
    ELSE <<DigitChar((10 * r) \div d)>> \o FractionDigits((10 * r) % d, d, k - 1)

\* f32::to_string
f32_to_string(x) ==
    IF x = <<0, 0>> THEN <<"N", "a", "N">>
    ELSE IF x = <<1, 0>> THEN <<"i", "n", "f">>
    ELSE IF x = <<-1, 0>> THEN <<"-", "i", "n", "f">>
    ELSE LET a == Abs(x[1])
             whole == NatToString(a \div x[2])
             frac == FractionDigits(a % x[2], x[2], 9)
         IN (IF x[1] < 0 THEN <<"-">> ELSE <<>>) \o whole
                \o (IF frac = <<>> THEN <<>> ELSE <<".">> \o frac)

----------------------------------------------------------------------------
(* The interpreter (src/src/interpreter/mod.rs) *)

\* LoxObject: every value has the same fields
Number(n) == [kind |-> "Number", n |-> n, s |-> <<>>, b |-> FALSE]

Str(s) == [kind |-> "Str", n |-> <<0, 1>>, s |-> s, b |-> FALSE]

Boolean(b) == [kind |-> "Boolean", n |-> <<0, 1>>, s |-> <<>>, b |-> b]

Nil == [kind |-> "Nil", n |-> <<0, 1>>, s |-> <<>>, b |-> FALSE]

\* PartialEq of LoxObject as it would be with a number and a string of the
\* same digits taken to be equal
lox_eq_coerces(l, r) ==
    \/ /\ l.kind = r.kind
       /\ CASE l.kind = "Number" -> f32_eq(l.n, r.n)
            [] l.kind = "Str" -> l.s = r.s
            [] l.kind = "Boolean" -> l.b = r.b
            [] OTHER -> TRUE
    \/ l.kind = "Number" /\ r.kind = "Str" /\ f32_to_string(l.n) = r.s
    \/ l.kind = "Str" /\ r.kind = "Number" /\ l.s = f32_to_string(r.n)

\* PartialEq of LoxObject, derived
lox_eq(l, r) ==
    /\ l.kind = r.kind
    /\ CASE l.kind = "Number" -> f32_eq(l.n, r.n)
         [] l.kind = "Str" -> l.s = r.s
         [] l.kind = "Boolean" -> l.b = r.b
         [] OTHER -> TRUE

\* RuntimeError::TypeError(message, token)
TypeError(message, token) ==
    [error |-> "TypeError", message |-> message, token |-> token, name |-> <<>>]

\* RuntimeError::UndefinedVariable(name)
UndefinedVariable(name) ==
    [error |-> "UndefinedVariable", message |-> "", token |-> NoOperator, name |-> name]

NoError == [error |-> "None", message |-> "", token |-> NoOperator, name |-> <<>>]

\* The result of evaluate or execute: Ok(value), Err(error), or a panic
Value(v) == [ok |-> TRUE, v |-> v, err |-> NoError, panic |-> ""]

Raise(e) == [ok |-> FALSE, v |-> Nil, err |-> e, panic |-> ""]

Fault(message) == [ok |-> FALSE, v |-> Nil, err |-> NoError, panic |-> message]

\* Interpreter::is_truthy as it would be with zero and the empty string
\* falsey as well
is_truthy_zero_is_falsey(obj) ==
    CASE obj.kind = "Nil" -> FALSE
      [] obj.kind = "Boolean" -> obj.b
      [] obj.kind = "Number" -> obj.n # <<0, 1>>
      [] obj.kind = "Str" -> obj.s # <<>>

\* Interpreter::is_truthy
is_truthy(obj) ==
    CASE obj.kind = "Nil" -> FALSE
      [] obj.kind = "Boolean" -> obj.b
      [] OTHER -> TRUE

\* Interpreter::stringify
stringify(obj) ==
    CASE obj.kind = "Number" -> f32_to_string(obj.n)
      [] obj.kind = "Str" -> obj.s
      [] obj.kind = "Boolean" ->
             IF obj.b THEN <<"t", "r", "u", "e">> ELSE <<"f", "a", "l", "s", "e">>
      [] obj.kind = "Nil" -> <<"n", "i", "l">>

\* Interpreter::visit_literal
visit_literal(value) ==
    CASE value.node # "Literal" -> Fault("Expected literal type")
      [] value.value.sub = "Number" -> Value(Number(parse_f32(value.value.text)))
      [] value.value.sub = "Str" -> Value(Str(value.value.text))
      [] value.value.sub = "True" -> Value(Boolean(TRUE))
      [] value.value.sub = "False" -> Value(Boolean(FALSE))
      [] value.value.sub = "Nil" -> Value(Nil)
      [] OTHER -> Fault("Expected literal type")

\* Interpreter::visit_unary, the match on the operator and the value
unary_op(operator, right_val) ==
    CASE operator.token_type.sub = "Minus" /\ right_val.kind = "Number" ->
             Value(Number(f32_neg(right_val.n)))
      [] operator.token_type.sub = "Minus" ->
             Raise(TypeError("Operand must be a number.", operator))
      [] OTHER -> Value(Boolean(~is_truthy(right_val)))

\* Interpreter::visit_binary as it would be with + joining a string and any
\* other value
binary_op_plus_coerces(l, operator, r) ==
    LET op == operator.token_type.sub
        numbers == l.kind = "Number" /\ r.kind = "Number"
    IN CASE op = "Minus" ->
                IF numbers THEN Value(Number(f32_sub(l.n, r.n)))
                ELSE Raise(TypeError("Operands to Minus need to be numbers.", operator))
         [] op = "Plus" ->
                IF numbers THEN Value(Number(f32_add(l.n, r.n)))
                ELSE IF l.kind = "Str" \/ r.kind = "Str"
                THEN Value(Str(stringify(l) \o stringify(r)))
                ELSE Raise(TypeError(
                         "Operands to Plus need to be both numbers or both strings.",
                         operator))
         [] op = "Star" ->
                IF numbers THEN Value(Number(f32_mul(l.n, r.n)))
                ELSE Raise(TypeError("Operands to Star need to be numbers.", operator))
         [] op = "Slash" ->
                IF numbers THEN Value(Number(f32_div(l.n, r.n)))
                ELSE Raise(TypeError("Operands to Slash need to be numbers.", operator))
         [] op = "Greater" ->
                IF numbers THEN Value(Boolean(f32_lt(r.n, l.n)))
                ELSE Raise(TypeError("Operands to Greater need to be numbers.", operator))
         [] op = "GreaterEqual" ->
                IF numbers THEN Value(Boolean(f32_lt(r.n, l.n) \/ f32_eq(l.n, r.n)))
                ELSE Raise(TypeError("Operands to GreaterEqual need to be numbers.",
                                     operator))
         [] op = "Less" ->
                IF numbers THEN Value(Boolean(f32_lt(l.n, r.n)))
                ELSE Raise(TypeError("Operands to Less need to be numbers.", operator))
         [] op = "LessEqual" ->
                IF numbers THEN Value(Boolean(f32_lt(l.n, r.n) \/ f32_eq(l.n, r.n)))
                ELSE Raise(TypeError("Operands to LessEqual need to be numbers.", operator))
         [] op = "EqualEqual" -> Value(Boolean(lox_eq(l, r)))
         [] op = "BangEqual" -> Value(Boolean(~lox_eq(l, r)))

\* Interpreter::visit_binary, the match on the operator and the two values
binary_op(l, operator, r) ==
    LET op == operator.token_type.sub
        numbers == l.kind = "Number" /\ r.kind = "Number"
    IN CASE op = "Minus" ->
                IF numbers THEN Value(Number(f32_sub(l.n, r.n)))
                ELSE Raise(TypeError("Operands to Minus need to be numbers.", operator))
         [] op = "Plus" ->
                IF numbers THEN Value(Number(f32_add(l.n, r.n)))
                ELSE IF l.kind = "Str" /\ r.kind = "Str" THEN Value(Str(l.s \o r.s))
                ELSE Raise(TypeError(
                         "Operands to Plus need to be both numbers or both strings.",
                         operator))
         [] op = "Star" ->
                IF numbers THEN Value(Number(f32_mul(l.n, r.n)))
                ELSE Raise(TypeError("Operands to Star need to be numbers.", operator))
         [] op = "Slash" ->
                IF numbers THEN Value(Number(f32_div(l.n, r.n)))
                ELSE Raise(TypeError("Operands to Slash need to be numbers.", operator))
         [] op = "Greater" ->
                IF numbers THEN Value(Boolean(f32_lt(r.n, l.n)))
                ELSE Raise(TypeError("Operands to Greater need to be numbers.", operator))
         [] op = "GreaterEqual" ->
                IF numbers THEN Value(Boolean(f32_lt(r.n, l.n) \/ f32_eq(l.n, r.n)))
                ELSE Raise(TypeError("Operands to GreaterEqual need to be numbers.",
                                     operator))
         [] op = "Less" ->
                IF numbers THEN Value(Boolean(f32_lt(l.n, r.n)))
                ELSE Raise(TypeError("Operands to Less need to be numbers.", operator))
         [] op = "LessEqual" ->
                IF numbers THEN Value(Boolean(f32_lt(l.n, r.n) \/ f32_eq(l.n, r.n)))
                ELSE Raise(TypeError("Operands to LessEqual need to be numbers.", operator))
         [] op = "EqualEqual" -> Value(Boolean(lox_eq(l, r)))
         [] op = "BangEqual" -> Value(Boolean(~lox_eq(l, r)))

RECURSIVE evaluate(_)
\* Interpreter::evaluate as it would be with visit_binary looking at the
\* outcome of the right operand first
evaluate_right_operand_first(expr) ==
    CASE expr.node = "Literal" -> visit_literal(expr)
      [] expr.node = "Grouping" -> evaluate(expr.kids[1])
      [] expr.node = "Unary" ->
             LET right_val == evaluate(expr.kids[1])
             IN IF ~right_val.ok THEN right_val
                ELSE unary_op(expr.operator, right_val.v)
      [] expr.node = "Binary" ->
             LET left_val == evaluate(expr.kids[1])
                 right_val == evaluate(expr.kids[2])
             IN IF ~right_val.ok THEN right_val
                ELSE IF ~left_val.ok THEN left_val
                ELSE binary_op(left_val.v, expr.operator, right_val.v)
      [] OTHER -> Fault("accept: no arm for Expression::Identifier")

\* Interpreter::evaluate with Expression::accept and the four visit_
\* functions.  accept has no arm for Expression::Identifier, and the
\* Interpreter holds no environment: an identifier has no handler.
evaluate(expr) ==
    CASE expr.node = "Literal" -> visit_literal(expr)
      [] expr.node = "Grouping" -> evaluate(expr.kids[1])
      [] expr.node = "Unary" ->
             LET right_val == evaluate(expr.kids[1])
             IN IF ~right_val.ok THEN right_val
                ELSE unary_op(expr.operator, right_val.v)
      [] expr.node = "Binary" ->
             LET left_val == evaluate(expr.kids[1])
                 right_val == evaluate(expr.kids[2])
             IN IF ~left_val.ok THEN left_val
                ELSE IF ~right_val.ok THEN right_val
                ELSE binary_op(left_val.v, expr.operator, right_val.v)
      [] OTHER -> Fault("accept: no arm for Expression::Identifier")

\* Interpreter::execute with Stmt::accept, visit_expression_stmt and
\* visit_print_stmt: the result, and the line printed (or <<>>).  There is
\* no handler for Decl::Var.
execute(stmt) ==
    CASE stmt.decl = "Expression" ->
             [result |-> evaluate(stmt.expr), printed |-> <<>>]
      [] stmt.decl = "Print" ->
             LET value == evaluate(stmt.expr)
             IN [result |-> value,
                 printed |-> IF value.ok THEN <<stringify(value.v)>> ELSE <<>>]
      [] OTHER ->
             [result |-> Fault("execute: no handler for Decl::Var"), printed |-> <<>>]

----------------------------------------------------------------------------
(* The environment (src/src/interpreter/environment.rs) *)

\* Environment::new: variables is the HashMap, a function on the names it holds
Environment_new == [variables |-> <<>>]

\* Environment::define as it would be with a name that is already held
\* keeping its value
define_keeps_first(env, name, value) ==
    [env EXCEPT !.variables =
        [n \in DOMAIN env.variables \cup {name} |->
            IF n \in DOMAIN env.variables THEN env.variables[n] ELSE value]]

\* Environment::define: HashMap::insert
define(env, name, value) ==
    [env EXCEPT !.variables =
        [n \in DOMAIN env.variables \cup {name} |->
            IF n = name THEN value ELSE env.variables[n]]]

\* Environment::get
get(env, name) ==
    IF name \in DOMAIN env.variables
    THEN Value(env.variables[name])
    ELSE Raise(UndefinedVariable(name))

----------------------------------------------------------------------------
(* The inputs *)

SeqsUpTo(S, n) == UNION {[1..k -> S] : k \in 0..n}

\* run: the characters of the source texts
SourceAlphabet ==
    {"1", "a", "\"", NEWLINE_CHAR, "/", "@", MULTIBYTE_CHAR, "=", ".", ";", "!"}

Sources == SeqsUpTo(SourceAlphabet, MaxSourceLen)

\* Scanner::scan_tokens: the source texts of operators, of numbers, and of
\* strings and identifiers with a character of two bytes
ScanSources ==
    SeqsUpTo({"!", "=", "<", ">"}, MaxSourceLen)
        \cup SeqsUpTo({"1", "2", "."}, MaxNumberLen)
        \cup SeqsUpTo({"a", "1", "\"", ".", MULTIBYTE_CHAR}, MaxSourceLen)

\* Parser::parse: the token sequences are those of lexemes joined by one
\* space, each token at its place in that text, with an Eof token at the end
ExprLexemes == {<<"1">>, <<"+">>, <<"-">>, <<"*">>, <<";">>}

StmtLexemes ==
    {<<"1">>, <<";">>, <<"a">>, <<"=">>, <<"(">>, <<")">>,
     <<"v", "a", "r">>, <<"p", "r", "i", "n", "t">>}

AnyLexemes ==
    ExprLexemes \cup StmtLexemes
        \cup {<<"<">>, <<"/">>, <<"!">>, <<"=", "=">>, <<"\"", "s", "\"">>,
              <<"i", "f">>, <<"n", "i", "l">>}

LexemeSeqs ==
    SeqsUpTo(ExprLexemes, MaxExprTokens) \cup SeqsUpTo(StmtLexemes, MaxStmtTokens)
        \cup SeqsUpTo(AnyLexemes, MaxAnyTokens)

RECURSIVE JoinLexemes(_)
JoinLexemes(ls) ==
    IF ls = <<>> THEN <<>>
    ELSE IF Len(ls) = 1 THEN ls[1]
    ELSE ls[1] \o <<" ">> \o JoinLexemes(Tail(ls))

RECURSIVE scan_loop(_)
\* Scanner::scan_tokens, its loop
scan_loop(s) ==
    IF s.panic # "" \/ scanner_is_at_end(s) THEN s
    ELSE scan_loop(scan_token([s EXCEPT !.start = s.current]))

\* the tokens of a text, with the Eof token that ends them
TokensWithEof(src) ==
    LET s == scan_loop(NewScanner(src))
    IN Append(s.tokens, Token(Eof, s.line, s.current))

\* Interpreter::interpret: the declarations of the programs
Tok(token_type) == Token(token_type, 1, 0)

NumberLit(text) == LiteralExpr(Literal("Number", text))

StrLit(text) == LiteralExpr(Literal("Str", text))

Binary(l, op, r) == BinaryExpr(l, Tok(Operator(op)), r)

DeclarationPool ==
    {PrintStmt(NumberLit(<<"1">>)),
     PrintStmt(Binary(NumberLit(<<"1">>), "Plus", NumberLit(<<"2">>))),
     PrintStmt(Binary(StrLit(<<"a">>), "Plus", StrLit(<<"b">>))),
     PrintStmt(Binary(StrLit(<<"a">>), "Plus", NumberLit(<<"1">>))),
     PrintStmt(Binary(NumberLit(<<"1">>), "EqualEqual", StrLit(<<"1">>))),
     PrintStmt(Binary(NumberLit(<<"1">>), "Slash", NumberLit(<<"2">>))),
     PrintStmt(UnaryExpr(Tok(Plain("Bang")), LiteralExpr(Literal("Nil", <<>>)))),
     PrintStmt(UnaryExpr(Tok(Operator("Minus")), StrLit(<<"a">>))),
     PrintStmt(GroupingExpr(LiteralExpr(Literal("True", <<>>)))),
     ExpressionStmt(NumberLit(<<"1">>)),
     ExpressionStmt(Binary(NumberLit(<<"1">>), "Less", LiteralExpr(Literal("Nil", <<>>)))),
     VarDecl(Tok(Identifier(<<"x">>)), NumberLit(<<"1">>)),
     PrintStmt(Binary(IdentifierExpr(Identifier(<<"x">>)), "Plus", NumberLit(<<"1">>))),
     PrintStmt(IdentifierExpr(Identifier(<<"y">>)))}

Programs == SeqsUpTo(DeclarationPool, MaxProgramLen)

\* Interpreter::interpret of one print statement: the expressions are the
\* literals of every kind, a unary or binary operator on literals, and a
\* binary operator on operands that are literals or raise errors of their own
LiteralOperands ==
    {NumberLit(<<"0">>), NumberLit(<<"1">>), StrLit(<<>>), StrLit(<<"a">>),
     StrLit(<<"1">>),
     LiteralExpr(Literal("True", <<>>)), LiteralExpr(Literal("False", <<>>)),
     LiteralExpr(Literal("Nil", <<>>))}

BinaryOperators ==
    {"Minus", "Plus", "Star", "Slash", "Greater", "GreaterEqual", "Less", "LessEqual",
     "EqualEqual", "BangEqual"}

UnaryOperators == {Tok(Operator("Minus")), Tok(Plain("Bang"))}

CompoundOperands ==
    {UnaryExpr(Tok(Operator("Minus")), StrLit(<<"a">>)),
     Binary(StrLit(<<"a">>), "Star", NumberLit(<<"1">>)),
     Binary(NumberLit(<<"1">>), "Plus", NumberLit(<<"1">>)),
     Binary(NumberLit(<<"0">>), "Slash", NumberLit(<<"0">>)),
     GroupingExpr(LiteralExpr(Literal("Nil", <<>>)))}

Expressions ==
    LiteralOperands
        \cup {UnaryExpr(operator, right) :
                 operator \in UnaryOperators, right \in LiteralOperands}
        \cup {Binary(left, op, right) :
                 left \in LiteralOperands \cup CompoundOperands,
                 op \in BinaryOperators,
                 right \in LiteralOperands \cup CompoundOperands}

----------------------------------------------------------------------------
(* The state machine *)

Idle(src) ==
    /\ source = src
    /\ scanner = NewScanner(src)
    /\ pending = <<>>
    /\ diagnostics = <<>>
    /\ ip = 0
    /\ output = <<>>
    /\ runtime_error = NoError
    /\ panic = ""
    /\ environment = Environment_new
    /\ calls = <<>>

\* run(source)
InitRun ==
    /\ entry = "run"
    /\ pc = "scan"
    /\ \E src \in Sources : Idle(src)
    /\ parser = NewParser(<<>>)
    /\ declarations = <<>>

\* Parser::new(tokens).parse(source), for the tokens of the lexemes ls
ParseEntry(ls) ==
    /\ entry = "parse"
    /\ pc = "parse"
    /\ Idle(JoinLexemes(ls))
    /\ parser = NewParser(TokensWithEof(JoinLexemes(ls)))
    /\ declarations = <<>>

InitParse == \E ls \in LexemeSeqs : ParseEntry(ls)

\* Parser::new(tokens).parse(source), for expression statements
InitParseExpr == \E ls \in SeqsUpTo(ExprLexemes, MaxExprTokens) : ParseEntry(ls)

\* Parser::parse on short sequences of every kind of token
InitParseAny == \E ls \in SeqsUpTo(AnyLexemes, MaxAnyTokens) : ParseEntry(ls)

\* Parser::parse on statements
InitParseStmt == \E ls \in SeqsUpTo(StmtLexemes, MaxStmtTokens) : ParseEntry(ls)

\* Interpreter::new().interpret(&declarations)
InitInterpret ==
    /\ entry = "interpret"
    /\ pc = "interpret"
    /\ Idle(<<>>)
    /\ parser = NewParser(<<>>)
    /\ declarations \in Programs

\* Interpreter::new().interpret(&[print expr;])
InitEvaluate ==
    /\ entry = "interpret"
    /\ pc = "interpret"
    /\ Idle(<<>>)
    /\ parser = NewParser(<<>>)
    /\ \E expr \in Expressions : declarations = <<PrintStmt(expr)>>

\* Environment: the names and the values of the calls
Names == {<<"a">>, <<"b">>}

Values == {Nil, Number(<<1, 1>>), Str(<<"a">>)}

\* run(source), as far as the return of scan_tokens
InitScan ==
    /\ entry = "run"
    /\ pc = "scan"
    /\ \E src \in ScanSources : Idle(src)
    /\ parser = NewParser(<<>>)
    /\ declarations = <<>>

\* a new Environment, before any call
InitEnvironment ==
    /\ entry = "environment"
    /\ pc = "environment"
    /\ Idle(<<>>)
    /\ parser = NewParser(<<>>)
    /\ declarations = <<>>

Init == InitRun \/ InitParse \/ InitInterpret

\* the call ends in a panic
Panic(message) == pc' = "panic" /\ panic' = message

\* Scanner::scan_tokens, one iteration of its loop
ScanToken ==
    /\ pc = "scan"
    /\ ~scanner_is_at_end(scanner)
    /\ LET s == scan_token([scanner EXCEPT !.start = scanner.current])
       IN /\ scanner' = s
          /\ IF s.panic # "" THEN Panic(s.panic) ELSE UNCHANGED <<pc, panic>>
    /\ UNCHANGED <<environment, calls, entry, source, pending, parser, declarations,
                   diagnostics, ip, output, runtime_error>>

\* run as it would be with the tokens handed to the parser whatever errors
\* the scanner recorded
ScanTokensReturn_parses_despite_errors ==
    /\ pc = "scan"
    /\ scanner_is_at_end(scanner)
    /\ pc' = "parse"
    /\ parser' = NewParser(scanner.tokens)
    /\ UNCHANGED <<environment, calls, entry, source, scanner, pending, declarations,
                   diagnostics, ip, output, runtime_error, panic>>

\* Scanner::scan_tokens returns, and run goes on with Ok(tokens) or Err(errors)
ScanTokensReturn ==
    /\ pc = "scan"
    /\ scanner_is_at_end(scanner)
    /\ IF scanner.errors = <<>>
       THEN /\ pc' = "parse"
            /\ parser' = NewParser(scanner.tokens)
            /\ UNCHANGED pending
       ELSE /\ pc' = "report"
            /\ pending' = scanner.errors
            /\ UNCHANGED parser
    /\ UNCHANGED <<environment, calls, entry, source, scanner, declarations,
                   diagnostics, ip, output, runtime_error, panic>>

\* run, one iteration of its loop over the scanner's errors
ReportScannerError ==
    /\ pc = "report"
    /\ pending # <<>>
    /\ LET error == Head(pending)
           r == report_error("ScannerError", error.line, error.current, source)
       IN IF r.panic # ""
          THEN Panic(r.panic) /\ UNCHANGED <<pending, diagnostics>>
          ELSE /\ diagnostics' =
                      Append(diagnostics,
                             [r.diagnostic EXCEPT !.character = error.character])
               /\ pending' = Tail(pending)
               /\ UNCHANGED <<pc, panic>>
    /\ UNCHANGED <<environment, calls, entry, source, scanner, parser, declarations, ip,
                   output, runtime_error>>

\* run returns after the scanner's errors are reported
RunReturn ==
    /\ pc = "report"
    /\ pending = <<>>
    /\ pc' = "done"
    /\ UNCHANGED <<environment, calls, entry, source, scanner, pending, parser,
                   declarations, diagnostics, ip, output, runtime_error, panic>>

\* Parser::parse, one iteration of its loop
ParseDeclaration ==
    /\ pc = "parse"
    /\ parser_is_at_end(parser) # "yes"
    /\ IF parser_is_at_end(parser) = "panic"
       THEN Panic("peek: index out of bounds")
                /\ UNCHANGED <<parser, declarations, diagnostics>>
       ELSE \E i \in {parse_iteration(parser, source)} :
                /\ parser' = [i.p EXCEPT !.panic = i.panic]
                /\ declarations' = declarations \o i.decl
                /\ diagnostics' = diagnostics \o i.diagnostic
                /\ IF i.panic # "" THEN Panic(i.panic) ELSE UNCHANGED <<pc, panic>>
    /\ UNCHANGED <<environment, calls, entry, source, scanner, pending, ip, output,
                   runtime_error>>

\* Parser::parse returns the declarations; in run, interpret is called next
ParseReturn ==
    /\ pc = "parse"
    /\ parser_is_at_end(parser) = "yes"
    /\ pc' = IF entry = "run" THEN "interpret" ELSE "done"
    /\ UNCHANGED <<environment, calls, entry, source, scanner, pending, parser,
                   declarations, diagnostics, ip, output, runtime_error, panic>>

\* Interpreter::interpret as it would be with the error of a statement dropped
\* and the loop going on to the next statement
Execute_continues ==
    /\ pc = "interpret"
    /\ ip < Len(declarations)
    /\ LET x == execute(declarations[ip + 1])
       IN IF x.result.ok
          THEN /\ output' = output \o x.printed
               /\ ip' = ip + 1
               /\ UNCHANGED <<pc, panic, runtime_error>>
          ELSE IF x.result.panic # ""
          THEN Panic(x.result.panic) /\ UNCHANGED <<output, ip, runtime_error>>
          ELSE /\ runtime_error' = x.result.err
               /\ ip' = ip + 1
               /\ UNCHANGED <<output, pc, panic>>
    /\ UNCHANGED <<environment, calls, entry, source, scanner, pending, parser,
                   declarations, diagnostics>>

\* Interpreter::interpret, one iteration of its loop: execute(..).unwrap()
Execute ==
    /\ pc = "interpret"
    /\ ip < Len(declarations)
    /\ LET x == execute(declarations[ip + 1])
       IN IF x.result.ok
          THEN /\ output' = output \o x.printed
               /\ ip' = ip + 1
               /\ UNCHANGED <<pc, panic, runtime_error>>
          ELSE IF x.result.panic # ""
          THEN Panic(x.result.panic) /\ UNCHANGED <<output, ip, runtime_error>>
          ELSE /\ runtime_error' = x.result.err
               /\ Panic("interpret: called Result::unwrap() on an Err value")
               /\ UNCHANGED <<output, ip>>
    /\ UNCHANGED <<environment, calls, entry, source, scanner, pending, parser,
                   declarations, diagnostics>>

\* Interpreter::interpret returns
InterpretReturn ==
    /\ pc = "interpret"
    /\ ip = Len(declarations)
    /\ pc' = "done"
    /\ UNCHANGED <<environment, calls, entry, source, scanner, pending, parser,
                   declarations, diagnostics, ip, output, runtime_error, panic>>

Next ==
    \/ ScanToken
    \/ ScanTokensReturn
    \/ ReportScannerError
    \/ RunReturn
    \/ ParseDeclaration
    \/ ParseReturn
    \/ Execute
    \/ InterpretReturn

Spec == Init /\ [][Next]_vars

\* the parser alone
NextParse == ParseDeclaration \/ ParseReturn

SpecParseExpr == InitParseExpr /\ [][NextParse]_vars

SpecParseStmt == InitParseStmt /\ [][NextParse]_vars

SpecParseAny == InitParseAny /\ [][NextParse]_vars

\* the scanner alone
NextScan == ScanToken \/ ScanTokensReturn

SpecScan == InitScan /\ [][NextScan]_vars

\* the interpreter alone
NextInterpret == Execute \/ InterpretReturn

SpecInterpret == InitInterpret /\ [][NextInterpret]_vars

\* the interpreter on one expression
SpecEvaluate == InitEvaluate /\ [][NextInterpret]_vars

\* environment.define(name, value)
Define ==
    /\ pc = "environment"
    /\ Len(calls) < MaxCalls
    /\ \E name \in Names, value \in Values :
           /\ environment' = define(environment, name, value)
           /\ calls' = Append(calls, [op |-> "define", name |-> name, value |-> value,
                                       result |-> Value(Nil)])
    /\ UNCHANGED <<entry, pc, source, scanner, pending, parser, declarations,
                   diagnostics, ip, output, runtime_error, panic>>

\* environment.get(name)
Get ==
    /\ pc = "environment"
    /\ Len(calls) < MaxCalls
    /\ \E name \in Names :
           calls' = Append(calls, [op |-> "get", name |-> name, value |-> Nil,
                                   result |-> get(environment, name)])
    /\ UNCHANGED <<entry, pc, source, scanner, pending, parser, declarations,
                   diagnostics, ip, output, runtime_error, panic, environment>>

\* the environment alone
NextEnvironment == Define \/ Get

SpecEnvironment == InitEnvironment /\ [][NextEnvironment]_vars

----------------------------------------------------------------------------
(* The token sequence handed from the scanner to the parser *)

\* the last token is Eof and no earlier one is
EndsWithEof(tokens) ==
    /\ tokens # <<>>
    /\ \A i \in DOMAIN tokens : (tokens[i].token_type = Eof) <=> (i = Len(tokens))

\* C1: for a source with no lexical error, scan_tokens returns Ok with a
\* token sequence whose last element is Eof and no earlier one is, and the
\* parser of run consumes it without reading past its end.
C1_ScanTokensEndsWithEof ==
    (entry = "run" /\ pc # "scan" /\ scanner.errors = <<>> /\ scanner.panic = "")
        => (EndsWithEof(parser.tokens) /\ parser.panic = "" /\ panic = "")

----------------------------------------------------------------------------
(* Precedence *)

\* the level of a binary operator in the grammar: equality 1, comparison 2,
\* term 3, factor 4
Level(operator) ==
    CASE operator.token_type.sub \in {"EqualEqual", "BangEqual"} -> 1
      [] operator.token_type.sub \in {"Greater", "GreaterEqual", "Less", "LessEqual"} -> 2
      [] operator.token_type.sub \in {"Plus", "Minus"} -> 3
      [] OTHER -> 4

RECURSIVE RespectsPrecedence(_)
\* the tree is one the grammar derives: the left operand of a binary node is
\* of the node's level or tighter, the right operand is tighter, and the
\* operand of a unary node is no binary node
RespectsPrecedence(expr) ==
    CASE expr.node = "Binary" ->
             /\ expr.kids[1].node = "Binary"
                    => Level(expr.kids[1].operator) >= Level(expr.operator)
             /\ expr.kids[2].node = "Binary"
                    => Level(expr.kids[2].operator) > Level(expr.operator)
             /\ RespectsPrecedence(expr.kids[1])
             /\ RespectsPrecedence(expr.kids[2])
      [] expr.node = "Unary" ->
             /\ expr.kids[1].node # "Binary"
             /\ RespectsPrecedence(expr.kids[1])
      [] expr.node = "Grouping" -> RespectsPrecedence(expr.kids[1])
      [] OTHER -> TRUE

\* C2: every expression the parser returns respects the precedence levels of
\* the grammar: an operator is consumed only by the loop of its own level, so
\* the tokens of 1+2*3 parse to Binary(1, +, Binary(2, *, 3)).
C2_PrecedenceRespected ==
    \A i \in DOMAIN declarations : RespectsPrecedence(declarations[i].expr)

----------------------------------------------------------------------------
(* Runtime errors *)

\* C3: a runtime error raised while executing a statement is delivered out of
\* interpret as an error value and never ends the call in a panic.
C3_RuntimeErrorIsDelivered == runtime_error # NoError => pc # "panic" /\ panic = ""

----------------------------------------------------------------------------
(* Lexical errors *)

\* the token the scanner is at begins with a quote that no later quote closes
UnterminatedString(s) ==
    /\ s.start < s.current
    /\ chars_nth(s.source, s.start) = "\""
    /\ \A i \in (s.start + 1)..(Len(s.source) - 1) : chars_nth(s.source, i) # "\""

\* C4: a string literal with no closing quote makes the scanner record a
\* missing-terminator error and finish with Err(errors): it emits no string
\* token for the literal and does not fault.
C4_UnterminatedStringIsAnError ==
    UnterminatedString(scanner)
        => /\ scanner.panic = ""
           /\ scanner.errors # <<>>
           /\ scanner.errors[Len(scanner.errors)].current > scanner.start
           /\ \A i \in DOMAIN scanner.tokens :
                  scanner.tokens[i].start_index_in_source # scanner.start
           /\ pc \notin {"parse", "interpret"}

\* a character that starts no token
IsUnknown(c) == c \in {"@", MULTIBYTE_CHAR}

\* the number of newline characters among the first n characters
NewlinesBefore(src, n) == Cardinality({j \in 1..n : src[j] = NEWLINE_CHAR})

RECURSIVE UnknownChars(_, _)
\* the errors of the unknown characters among the first n characters, in
\* source order; the offset of an error is the cursor just after its character
UnknownChars(src, n) ==
    IF n = 0 THEN <<>>
    ELSE UnknownChars(src, n - 1)
             \o (IF IsUnknown(src[n])
                 THEN <<UnknownToken(src[n], 1 + NewlinesBefore(src, n - 1), n)>>
                 ELSE <<>>)

\* C5: for a source (here one with no string and no comment) with k
\* characters that start no token, scan_tokens records exactly k
\* unknown-character errors in source order, each with its character, line
\* and offset, scans on after each, and returns Err iff k >= 1.
C5_EveryUnknownCharacterIsRecorded ==
    (entry = "run" /\ \A i \in DOMAIN source : source[i] \notin {"\"", "/"})
        => /\ scanner.panic = ""
           /\ pc # "scan" => scanner.errors = UnknownChars(source, Len(source))
           /\ pc = "report" => UnknownChars(source, Len(source)) # <<>>
           /\ pc \in {"parse", "interpret"} => UnknownChars(source, Len(source)) = <<>>

----------------------------------------------------------------------------
(* Syntax errors *)

IsOperand(t) == t.token_type.type = "Literal"

IsBinaryOperator(t) == t.token_type.type = "Operator" /\ t.token_type.sub # "Minus"

\* operands and binary operators that make an expression: they alternate,
\* from an operand to an operand
IsExpression(b) ==
    /\ Len(b) % 2 = 1
    /\ \A i \in DOMAIN b : IF i % 2 = 1 THEN IsOperand(b[i]) ELSE IsBinaryOperator(b[i])

\* the tokens before a semicolon: operands and binary operators that make
\* no expression
Malformed(b) ==
    /\ b # <<>>
    /\ \A i \in DOMAIN b : IsOperand(b[i]) \/ IsBinaryOperator(b[i])
    /\ ~IsExpression(b)

\* two malformed statements, each ended by a semicolon, and Eof
TwoMalformedStatements(tokens) ==
    \E i, j \in DOMAIN tokens :
        /\ i < j
        /\ j = Len(tokens) - 1
        /\ {k \in DOMAIN tokens : tokens[k].token_type.type = "Semicolon"} = {i, j}
        /\ tokens[Len(tokens)].token_type = Eof
        /\ Malformed(SubSeq(tokens, 1, i - 1))
        /\ Malformed(SubSeq(tokens, i + 1, j - 1))

\* C6: a program of two independent malformed statements separated by a
\* semicolon makes Parser::parse report exactly two syntax errors.
C6_TwoMalformedStatementsTwoErrors ==
    (entry = "parse" /\ pc \in {"done", "panic"} /\ TwoMalformedStatements(parser.tokens))
        => (pc = "done" /\ Len(diagnostics) = 2)

----------------------------------------------------------------------------
(* Execution order *)

RECURSIVE PrintedBy(_)
\* the lines that the statements print, in program order
PrintedBy(decls) ==
    IF decls = <<>> THEN <<>>
    ELSE PrintedBy(SubSeq(decls, 1, Len(decls) - 1)) \o execute(decls[Len(decls)]).printed

\* C7: when statement k raises a runtime error, statements 1..k-1 have
\* produced their output in program order, statement k is the one at the
\* interpreter's position, and no later statement has been executed or has
\* produced output.
C7_RuntimeErrorStopsExecution ==
    runtime_error # NoError
        => /\ ip < Len(declarations)
           /\ execute(declarations[ip + 1]).result.err = runtime_error
           /\ \A j \in 1..ip : execute(declarations[j]).result.ok
           /\ output = PrintedBy(SubSeq(declarations, 1, ip))

\* a runtime error after some output and before a statement that is left
C7_ErrorAfterOutputBeforeLast ==
    /\ runtime_error # NoError
    /\ output # <<>>
    /\ ip + 1 < Len(declarations)
    /\ execute(declarations[ip + 2]).printed # <<>>

----------------------------------------------------------------------------
(* Variables *)

\* C8: an identifier evaluates to the value its most recent declaration
\* bound, so `var x = 1; print x + 1;` prints 2, and an identifier with no
\* declaration raises the undefined-variable runtime error, not a fault.
C8_IdentifierEvaluatesToItsBinding ==
    (entry = "interpret" /\ pc \in {"done", "panic"} /\ declarations # <<>>)
        => /\ (/\ Len(declarations) >= 2
               /\ declarations[1] = VarDecl(Tok(Identifier(<<"x">>)), NumberLit(<<"1">>))
               /\ declarations[2] =
                      PrintStmt(Binary(IdentifierExpr(Identifier(<<"x">>)), "Plus",
                                       NumberLit(<<"1">>))))
                  => (output # <<>> /\ output[1] = <<"2">>)
           /\ declarations[1] = PrintStmt(IdentifierExpr(Identifier(<<"y">>)))
                  => (runtime_error = UndefinedVariable(<<"y">>) /\ output = <<>>)

----------------------------------------------------------------------------
(* Token positions *)

\* C9: every token the scanner emits records the line of the first character
\* of its lexeme, 1 + the number of newlines before it, and the byte offset
\* of that character; start_index_in_source is the index of that character
\* as the scanner counts it.
C9_TokenRecordsLineAndByteOffset ==
    \A i \in DOMAIN scanner.tokens :
        LET token == scanner.tokens[i]
        IN /\ token.line = 1 + NewlinesBefore(source, token.start_index_in_source)
           /\ token.start_index_in_source
                  = byte_offset(source, token.start_index_in_source)

----------------------------------------------------------------------------
(* Locations of diagnostics *)

\* the index of the offending character or token of a diagnostic: the scanner
\* records the cursor just after the character, the parser the start of the
\* token found
OffendingIndex(d) == IF d.kind = "ScannerError" THEN d.current - 1 ELSE d.current

\* C10: for every error that run reports with line L and an offset,
\* find_location_in_source returns the text of line L and the offset less the
\* lengths of the lines before L with their terminators, which is the 0-based
\* column of the offending character or token in line L, and its
\* subtractions do not go below zero.
C10_ColumnIsZeroBasedAndNeverUnderflows ==
    entry = "run"
        => /\ panic # "report_error: attempt to subtract with overflow"
           /\ \A i \in DOMAIN diagnostics :
                  LET d == diagnostics[i]
                      lines == str_lines(source)
                  IN d.line \in DOMAIN lines
                         => /\ d.line_content = lines[d.line]
                            /\ d.col = OffendingIndex(d)
                                           - sum_line_lengths(lines, d.line - 1)
                            /\ d.col >= 0

----------------------------------------------------------------------------
(* The content of a syntax error *)

\* the kind of a token type: its variant and, of a literal or an operator,
\* the variant of its payload
KindOf(token_type) == <<token_type.type, token_type.sub>>

\* the kinds of token that can start a primary expression
StartsPrimary ==
    {<<"Literal", "Number">>, <<"Literal", "Str">>, <<"Literal", "True">>,
     <<"Literal", "False">>, <<"Literal", "Nil">>, <<"Identifier", "">>,
     <<"LeftParenthesis", "">>}

ExpectedKinds(error) == {KindOf(error.expected[i]) : i \in DOMAIN error.expected}

\* C11: a syntax error carries the token at the cursor where it is raised,
\* and the error raised where a primary expression is required expects every
\* kind that can start one: number, string, true, false, nil, identifier and
\* left parenthesis.
C11_ErrorCarriesFoundAndExpected ==
    (pc = "parse" /\ parser_is_at_end(parser) = "no")
        => \A r \in {parse_declaration(parser)} :
               (~r.ok /\ r.p.panic = "")
                   => /\ peek_in_range(r.p)
                      /\ r.v.found = parser_peek(r.p)
                      /\ <<"Literal", "Number">> \in ExpectedKinds(r.v)
                             => ExpectedKinds(r.v) = StartsPrimary

----------------------------------------------------------------------------
(* Associativity *)

\* the tokens are operands and n binary operators of one level in turn, from
\* an operand to an operand, then a semicolon and Eof
IsChain(tokens, n) ==
    /\ Len(tokens) = 2 * n + 3
    /\ \A i \in 1..(2 * n + 1) :
           IF i % 2 = 1 THEN tokens[i].token_type.type = "Literal"
           ELSE /\ tokens[i].token_type.type = "Operator"
                /\ Level(tokens[i]) = Level(tokens[2])
    /\ tokens[2 * n + 2].token_type = Plain("Semicolon")
    /\ tokens[2 * n + 3].token_type = Eof

RECURSIVE LeftNested(_, _)
\* the left-nested tree of the first k operators of a chain
LeftNested(tokens, k) ==
    IF k = 0 THEN LiteralExpr(tokens[1].token_type)
    ELSE BinaryExpr(LeftNested(tokens, k - 1), tokens[2 * k],
                    LiteralExpr(tokens[2 * k + 1].token_type))

\* C12: a chain of n binary operators of one precedence level parses to the
\* left-nested tree of depth n, with the operands and the operators in
\* source order: `a op1 b op2 c` gives Binary(Binary(a, op1, b), op2, c).
C12_ChainsAreLeftAssociative ==
    \A n \in 1..MaxExprTokens :
        (pc = "done" /\ IsChain(parser.tokens, n))
            => declarations = <<ExpressionStmt(LeftNested(parser.tokens, n))>>

\* a chain of two different operators of one level has been parsed
C12_TwoOperatorChainParsed ==
    /\ pc = "done"
    /\ IsChain(parser.tokens, 2)
    /\ parser.tokens[2].token_type # parser.tokens[4].token_type
    /\ declarations # <<>>
    /\ declarations[1].expr.kids[1].node = "Binary"

----------------------------------------------------------------------------
(* The kinds of the operators' results *)

\* the runtime kind of the value of a literal
KindOfLiteral(expr) ==
    CASE expr.value.sub = "Number" -> "Number"
      [] expr.value.sub = "Str" -> "Str"
      [] expr.value.sub \in {"True", "False"} -> "Boolean"
      [] OTHER -> "Nil"

\* the kind of the outcome of evaluate: the kind of the value, the kind of
\* the runtime error, or "Fault"
OutcomeKind(x) ==
    IF x.ok THEN x.v.kind ELSE IF x.panic # "" THEN "Fault" ELSE x.err.error

\* the kind of outcome that the operand kinds l and r determine
BinaryOutcome(l, op, r) ==
    CASE op \in {"Minus", "Star", "Slash"} ->
             IF l = "Number" /\ r = "Number" THEN "Number" ELSE "TypeError"
      [] op \in {"Greater", "GreaterEqual", "Less", "LessEqual"} ->
             IF l = "Number" /\ r = "Number" THEN "Boolean" ELSE "TypeError"
      [] op = "Plus" ->
             IF l = "Number" /\ r = "Number" THEN "Number"
             ELSE IF l = "Str" /\ r = "Str" THEN "Str"
             ELSE "TypeError"
      [] OTHER -> "Boolean"

\* the statement executed is print of an operator on two literals
IsBinaryOnLiterals(expr) ==
    /\ expr.node = "Binary"
    /\ expr.kids[1].node = "Literal"
    /\ expr.kids[2].node = "Literal"

\* what interpret leaves of the outcome x of its one print statement
Delivered(x) ==
    IF x.ok THEN runtime_error = NoError /\ output = <<stringify(x.v)>>
    ELSE runtime_error = x.err /\ output = <<>>

\* C13: the kind of the outcome of - * / > >= < <= and + is determined by
\* the kinds of the operands: a Number (Boolean for a comparison) iff both
\* are Numbers, for + also the concatenated Str of two Strs, and otherwise a
\* TypeError that carries the operator token.
C13_BinaryOutcomeByOperandKinds ==
    (pc \in {"done", "panic"} /\ IsBinaryOnLiterals(declarations[1].expr)
        /\ declarations[1].expr.operator.token_type.sub \notin {"EqualEqual", "BangEqual"})
        => \A x \in {evaluate(declarations[1].expr)} :
               LET expr == declarations[1].expr
               IN /\ OutcomeKind(x)
                         = BinaryOutcome(KindOfLiteral(expr.kids[1]),
                                         expr.operator.token_type.sub,
                                         KindOfLiteral(expr.kids[2]))
                  /\ Delivered(x)
                  /\ OutcomeKind(x) = "TypeError" => x.err.token = expr.operator
                  /\ OutcomeKind(x) = "Str"
                         => x.v.s = expr.kids[1].value.text \o expr.kids[2].value.text

\* a comparison of a string with a number has ended in its TypeError
C13_ComparisonOfStringRaised ==
    /\ pc = "panic"
    /\ IsBinaryOnLiterals(declarations[1].expr)
    /\ declarations[1].expr.operator.token_type.sub = "Less"
    /\ KindOfLiteral(declarations[1].expr.kids[1]) = "Str"
    /\ runtime_error.error = "TypeError"

----------------------------------------------------------------------------
(* Equality *)

\* two runtime values of the same kind and the same value; numbers are
\* compared as f32 values, among which a NaN equals no value
SameKindAndValue(l, r) ==
    /\ l.kind = r.kind
    /\ CASE l.kind = "Number" -> l.n = r.n /\ ~IsNaN(l.n)
         [] l.kind = "Str" -> l.s = r.s
         [] l.kind = "Boolean" -> l.b = r.b
         [] OTHER -> TRUE

\* the statement executed is print of == or != on two operands
IsEquality(expr) ==
    expr.node = "Binary" /\ expr.operator.token_type.sub \in {"EqualEqual", "BangEqual"}

----------------------------------------------------------------------------
(* Unary operators *)

\* the statement executed is print of a unary operator on a literal
IsUnaryOnLiteral(expr) == expr.node = "Unary" /\ expr.kids[1].node = "Literal"

\* what the claim gives for a unary operator on an operand of a kind
UnaryOutcome(op, kind) ==
    CASE op = "Bang" -> "Boolean"
      [] op = "Minus" /\ kind = "Number" -> "Number"
      [] OTHER -> "TypeError"

\* C15: unary ! never fails and yields true exactly for the operands nil and
\* false (0 and "" yield false); unary - yields a Number for a Number operand
\* and raises TypeError, with the operator token, for any other operand.
C15_UnaryOutcomeByOperandKind ==
    (pc \in {"done", "panic"} /\ IsUnaryOnLiteral(declarations[1].expr))
        => \A x \in {evaluate(declarations[1].expr)} :
               LET expr == declarations[1].expr
                   op == IF expr.operator.token_type.type = "Bang"
                         THEN "Bang" ELSE expr.operator.token_type.sub
                   operand == expr.kids[1].value
               IN /\ OutcomeKind(x) = UnaryOutcome(op, KindOfLiteral(expr.kids[1]))
                  /\ Delivered(x)
                  /\ op = "Bang" => x.v.b = (operand.sub \in {"Nil", "False"})
                  /\ OutcomeKind(x) = "TypeError" => x.err.token = expr.operator

\* !0 has been evaluated and false printed
C15_NotZeroPrintedFalse ==
    /\ pc = "done"
    /\ IsUnaryOnLiteral(declarations[1].expr)
    /\ declarations[1].expr.operator.token_type.type = "Bang"
    /\ declarations[1].expr.kids[1].value = Literal("Number", <<"0">>)
    /\ output = <<<<"f", "a", "l", "s", "e">>>>

----------------------------------------------------------------------------
(* The order of evaluation of the operands of a binary operator *)

\* C16: the left operand of a binary operator is evaluated before the right
\* one: when the left operand raises, its error is the outcome whatever the
\* right operand would do (the right operand is not evaluated); and the
\* operator checks the kinds of its operands only after both are evaluated,
\* so that when only the right operand raises, its error is the outcome
\* whatever the kind of the left value.
C16_LeftOperandFirst ==
    (pc \in {"done", "panic"} /\ declarations[1].expr.node = "Binary")
        => \A l \in {evaluate(declarations[1].expr.kids[1])} :
           \A r \in {evaluate(declarations[1].expr.kids[2])} :
           \A x \in {evaluate(declarations[1].expr)} :
               /\ ~l.ok => x = l
               /\ (l.ok /\ ~r.ok) => x = r
               /\ (l.ok /\ r.ok /\ ~x.ok) => x.err.token = declarations[1].expr.operator
               /\ Delivered(x)

\* both operands raise, with different errors, and the error of the left one
\* has been handed to the caller of interpret
C16_BothOperandsRaiseLeftReported ==
    /\ pc = "panic"
    /\ declarations[1].expr.node = "Binary"
    /\ ~evaluate(declarations[1].expr.kids[1]).ok
    /\ ~evaluate(declarations[1].expr.kids[2]).ok
    /\ evaluate(declarations[1].expr.kids[1]) # evaluate(declarations[1].expr.kids[2])
    /\ runtime_error = evaluate(declarations[1].expr.kids[1]).err

----------------------------------------------------------------------------
(* The environment *)

\* the place in calls of the last define of name before the i-th call, or 0
LastDefine(i, name) ==
    LET before == {j \in 1..(i - 1) : calls[j].op = "define" /\ calls[j].name = name}
    IN IF before = {} THEN 0 ELSE CHOOSE j \in before : \A k \in before : k <= j

\* C17: get(n) returns the value of the most recent define(n, v), or fails
\* with UndefinedVariable(n) when n was never defined; it returns no default
\* value and changes nothing of the mapping, which holds exactly the names
\* defined.
C17_GetReturnsMostRecentDefine ==
    pc = "environment"
        => /\ \A i \in DOMAIN calls :
                  calls[i].op = "get"
                      => calls[i].result
                             = IF LastDefine(i, calls[i].name) = 0
                               THEN Raise(UndefinedVariable(calls[i].name))
                               ELSE Value(calls[LastDefine(i, calls[i].name)].value)
           /\ DOMAIN environment.variables
                  = {calls[i].name : i \in {j \in DOMAIN calls : calls[j].op = "define"}}

\* a name was defined twice, with two values, after a get of it failed, and
\* the last get of it returned the second value
C17_RedefinedNameRead ==
    /\ pc = "environment"
    /\ Len(calls) = 4
    /\ calls[1].op = "get" /\ ~calls[1].result.ok
    /\ calls[2].op = "define" /\ calls[3].op = "define" /\ calls[4].op = "get"
    /\ calls[1].name = calls[2].name /\ calls[2].name = calls[3].name
    /\ calls[3].name = calls[4].name
    /\ calls[2].value # calls[3].value
    /\ calls[4].result = Value(calls[3].value)

----------------------------------------------------------------------------
(* The stages of run *)

\* a step of the parser: its cursor moves, or a declaration or an error is
\* added
ParserActs ==
    \/ parser' # parser
    \/ declarations' # declarations
    \/ pc = "parse" /\ diagnostics' # diagnostics

\* a step of the interpreter: a statement is executed
InterpreterActs == ip' # ip \/ output' # output \/ runtime_error' # runtime_error

\* C18: in a call of run the stages follow one another: the parser takes no
\* step before the scanner has reached the end of the source, the interpreter
\* takes no step before the parser has reached the end of the tokens, the
\* scanner takes no step once the parser has the tokens, and when the scanner
\* recorded an error neither the parser nor the interpreter takes any step and
\* run returns only when every error is reported.
C18_StagesAreSequential ==
    [][entry = "run"
          => /\ ParserActs
                 => /\ scanner_is_at_end(scanner)
                    /\ scanner' = scanner
                    /\ ~InterpreterActs
             /\ InterpreterActs
                 => /\ scanner_is_at_end(scanner)
                    /\ parser_is_at_end(parser) = "yes"
                    /\ pc = "interpret"
             /\ scanner' # scanner
                 => parser = NewParser(<<>>) /\ declarations = <<>> /\ ip = 0
             /\ scanner.errors # <<>> => ~ParserActs /\ ~InterpreterActs
             /\ (scanner.errors # <<>> /\ pc' = "done")
                 => Len(diagnostics) = Len(scanner.errors)]_vars

\* run has returned after the report of a lexical error of a source that has
\* tokens as well: none was parsed, nothing executed
C18_ReturnedWithoutParsing ==
    /\ entry = "run"
    /\ pc = "done"
    /\ scanner.errors # <<>>
    /\ scanner.tokens # <<>>
    /\ Len(diagnostics) = Len(scanner.errors)
    /\ parser = NewParser(<<>>)
    /\ declarations = <<>>
    /\ output = <<>>

----------------------------------------------------------------------------
(* match_token *)

\* the calls of match_token on operators that the parser makes: the types
\* requested and the subtype T
OperatorMatches ==
    {[types |-> <<Operator("Minus"), Plain("Bang")>>, T |-> "UnaryOperator"],
     [types |-> <<Operator("Star"), Operator("Slash")>>, T |-> "BinaryOperator"],
     [types |-> <<Operator("Minus"), Operator("Plus")>>, T |-> "BinaryOperator"],
     [types |-> <<Operator("BangEqual"), Operator("EqualEqual")>>, T |-> "BinaryOperator"]}

\* C19: match_token consumes the current token only if its kind is one of
\* the kinds requested, + and * and - and / being kinds of their own; when it
\* moves the cursor it returns the token consumed, and when it returns None
\* the cursor has not moved.
C19_MatchTokenConsumesOnlyRequestedKinds ==
    (pc = "parse" /\ parser_is_at_end(parser) = "no")
        => \A call \in OperatorMatches :
           \A r \in {match_token(parser, call.types, call.T)} :
               r.p.panic = ""
                   => /\ r.p.current # parser.current
                          => /\ KindOf(parser_peek(parser).token_type)
                                    \in {KindOf(call.types[i]) : i \in DOMAIN call.types}
                             /\ r.ok
                             /\ r.v = parser_peek(parser)
                      /\ ~r.ok => r.p.current = parser.current

----------------------------------------------------------------------------
(* synchronize *)

StatementStartKeywords ==
    {"Class", "Fun", "Var", "For", "If", "While", "Print", "Return"}

\* the place in tokens of the token found by the syntax error last reported
ErrorAt(tokens, reported) ==
    CHOOSE i \in DOMAIN tokens : tokens[i] = reported[Len(reported)].found

----------------------------------------------------------------------------
(* The operators of one or two characters *)

\* the token of the character c, followed by '=' or not
OneOrTwo(c, equal_follows) ==
    CASE c = "!" -> IF equal_follows THEN Operator("BangEqual") ELSE Plain("Bang")
      [] c = "=" -> IF equal_follows THEN Operator("EqualEqual") ELSE Plain("Equal")
      [] c = "<" -> IF equal_follows THEN Operator("LessEqual") ELSE Operator("Less")
      [] c = ">" -> IF equal_follows THEN Operator("GreaterEqual") ELSE Operator("Greater")

\* C21: at each of the characters ! = < > the scanner emits exactly one
\* token: the operator of two characters when the next character is =, both
\* characters consumed, and the token of one character otherwise, one
\* character consumed (at the end of the input as well).
C21_OneOrTwoCharacterOperators ==
    [][(pc = "scan" /\ scanner' # scanner
            /\ chars_nth(source, scanner.current) \in {"!", "=", "<", ">"})
          => LET c == chars_nth(source, scanner.current)
                 equal_follows == chars_nth(source, scanner.current + 1) = "="
             IN /\ scanner'.panic = ""
                /\ scanner'.errors = scanner.errors
                /\ Len(scanner'.tokens) = Len(scanner.tokens) + 1
                /\ SubSeq(scanner'.tokens, 1, Len(scanner.tokens)) = scanner.tokens
                /\ scanner'.tokens[Len(scanner'.tokens)].token_type
                       = OneOrTwo(c, equal_follows)
                /\ scanner'.current
                       = scanner.current + (IF equal_follows THEN 2 ELSE 1)]_vars

\* === has been scanned as EqualEqual, Equal
C21_TripleEqualScanned ==
    /\ pc = "parse"
    /\ source = <<"=", "=", "=">>
    /\ Len(parser.tokens) = 2
    /\ parser.tokens[1].token_type = Operator("EqualEqual")
    /\ parser.tokens[2].token_type = Plain("Equal")

----------------------------------------------------------------------------
(* Number lexemes *)

RECURSIVE DigitRun(_, _)
\* the number of digits of src from the character of index i on
DigitRun(src, i) ==
    IF is_ascii_digit(chars_nth(src, i)) THEN 1 + DigitRun(src, i + 1) ELSE 0

\* the number of characters of the number lexeme that starts at index i
NumberLexemeLen(src, i) ==
    LET whole == DigitRun(src, i)
    IN IF chars_nth(src, i + whole) = "." /\ is_ascii_digit(chars_nth(src, i + whole + 1))
       THEN whole + 1 + DigitRun(src, i + whole + 1)
       ELSE whole

\* C22: at a digit the scanner emits one Number token whose lexeme is the
\* maximal run of digits, with one '.' and a further maximal run of digits
\* only when the '.' is followed by a digit; a '.' that no digit follows is
\* left to be scanned as Dot.
C22_NumberLexemeIsMaximalRun ==
    [][(pc = "scan" /\ scanner' # scanner
            /\ is_ascii_digit(chars_nth(source, scanner.current)))
          => LET n == NumberLexemeLen(source, scanner.current)
             IN /\ scanner'.panic = ""
                /\ scanner'.current = scanner.current + n
                /\ Len(scanner'.tokens) = Len(scanner.tokens) + 1
                /\ scanner'.tokens[Len(scanner'.tokens)].token_type
                       = Literal("Number",
                                 SubSeq(source, scanner.current + 1,
                                        scanner.current + n))]_vars

----------------------------------------------------------------------------
(* The cursor of the parser *)

CursorPanics == {"peek: index out of bounds", "previous: index out of bounds"}

\* C23: on a token sequence that ends with Eof the cursor of the parser
\* stays within 0 <= current < len(tokens): peek never indexes past the last
\* token, previous is never called at current = 0 (neither panics), and
\* advance never moves the cursor past Eof.
C23_CursorStaysInRange ==
    (entry = "parse" /\ EndsWithEof(parser.tokens))
        => /\ parser.current >= 0
           /\ parser.current < Len(parser.tokens)
           /\ panic \notin CursorPanics
           /\ parser.panic \notin CursorPanics

\* a syntax error was found at Eof and synchronize, whose advance does not
\* move there, has returned: the parser is done with the cursor at Eof
C23_SynchronizedAtEof ==
    /\ entry = "parse"
    /\ pc = "done"
    /\ Len(diagnostics) = 1
    /\ diagnostics[1].found.token_type = Eof
    /\ parser.current = Len(parser.tokens) - 1
    /\ Len(parser.tokens) > 2

----------------------------------------------------------------------------
(* Termination of parse *)

\* C24: Parser::parse terminates on every token sequence that ends with Eof:
\* every iteration of its loop after which the loop goes on has moved the
\* cursor forward by at least one token, whether a declaration was parsed or
\* an error was found and synchronize ran, and the cursor stays before the
\* end of the tokens, which do not change: the loop cannot repeat on the same
\* token, and it ends after at most as many iterations as there are tokens
\* before Eof.
C24_ParseTerminates ==
    [][(pc = "parse" /\ pc' = "parse")
          => /\ parser'.current > parser.current
             /\ parser'.current < Len(parser.tokens)
             /\ parser'.tokens = parser.tokens
             /\ Len(declarations') + Len(diagnostics') <= parser'.current]_vars

\* after a declaration, a syntax error was found at the keyword if, which
\* starts no statement of this parser, and parse has returned
C24_ReturnedAfterErrorAtKeyword ==
    /\ pc = "done"
    /\ Len(declarations) = 1
    /\ Len(diagnostics) = 1
    /\ diagnostics[1].found.token_type = Plain("If")
    /\ parser_is_at_end(parser) = "yes"

----------------------------------------------------------------------------
(* The cursor of the scanner *)

\* the text of the token is the characters of the source consumed for it:
\* those from its start on, for a string those after the opening quote
LexemeIsCharactersConsumed(src, token) ==
    LET text == token.token_type.text
        start == token.start_index_in_source
    IN CASE token.token_type.type = "Literal" /\ token.token_type.sub = "Str" ->
                /\ chars_nth(src, start) = "\""
                /\ text = SubSeq(src, start + 2, start + 1 + Len(text))
                /\ chars_nth(src, start + 1 + Len(text)) = "\""
         [] token.token_type.type = "Identifier"
                \/ (token.token_type.type = "Literal" /\ token.token_type.sub = "Number") ->
                /\ text # <<>>
                /\ text = SubSeq(src, start + 1, start + Len(text))
         [] OTHER -> TRUE

\* C25: for every source text, characters of more than one byte included,
\* the cursor of the scanner stays consistent with the source: advance never
\* unwraps a missing character, is_at_end is true exactly when the last
\* character has been consumed, and the slice taken for a string, a number or
\* an identifier is exactly the characters consumed for it.
C25_ScannerCursorConsistentWithSource ==
    entry = "run"
        => /\ scanner.panic
                  \notin {"advance: unwrap on None", "scan_string: slice",
                          "scan_number: slice", "scan_number: unwrap on Err",
                          "scan_identifier: slice"}
           /\ scanner.panic = ""
                  => (scanner_is_at_end(scanner) <=> scanner.current = Len(source))
           /\ \A i \in DOMAIN scanner.tokens :
                  LexemeIsCharactersConsumed(source, scanner.tokens[i])

====
